---- MODULE Spec2Model ----
(***************************************************************************)
(* Model of the two P4Runtime controllers of the repository:               *)
(*   exercises/homework1/mycontroller-triangle.py  (ECN monitoring, "ecn") *)
(*   exercises/homework4/mycontroller.py           (ACL set-up,      "acl") *)
(* The driver (main), the switch manager / controller methods and the      *)
(* packet parser are translated from the source.  The P4Runtime library    *)
(* (p4runtime_lib) and the devices are the environment: every library call *)
(* either succeeds or raises, and device streams deliver messages, end or  *)
(* fail at any time.                                                       *)
(***************************************************************************)
EXTENDS Integers, Sequences, FiniteSets, TLC

VARIABLES
    prog,         \* which controller runs: "ecn" or "acl"
    files,        \* [p4info |-> BOOLEAN, bmv2 |-> BOOLEAN]: os.path.exists of the two inputs
    pc,           \* position of the driver
    idx,          \* loop index of the current loop of the driver
    switches,     \* self.switches: dict name -> connection, in insertion order
    connections,  \* every connection object created, in creation order, with its stream
    sent,         \* history of the requests issued to the devices
    threshold,    \* ecn_threshold returned by get_ecn_threshold (-1: not read yet)
    raised,       \* exception propagating in main ("none" when there is none)
    out,          \* lines printed by the driver
    received,     \* history of the stream messages the monitoring loop consumed
    evaluated,    \* history of the payloads decoded: device, payload, ECN value
    alerts,       \* history of the congestion alerts printed
    exitcode,     \* how the process ended ("running" until it does)
    nEvents,      \* number of stream messages the devices have produced
    channel_errors, \* connections whose RpcError the monitoring loop has caught
    calls,        \* history of the calls of the controller's methods made by a client
    first_run     \* what an earlier run of the controller on the same events showed

vars == <<prog, files, pc, idx, switches, connections, sent, threshold, raised,
          out, received, evaluated, alerts, exitcode, nEvents,
          channel_errors, calls, first_run>>

-----------------------------------------------------------------------------
(* Bounds of the model *)

\* stream messages produced by all devices together in one run
MaxEvents == 2
\* longest payload of the packets drawn in DecodeSpec
MaxPayloadLen == 16

-----------------------------------------------------------------------------
(* Python helpers *)

\* no earlier run is on record
NoRun == [done |-> FALSE, events |-> <<>>, threshold |-> -1, sent |-> <<>>,
          received |-> <<>>, alerts |-> <<>>]

Min(a, b) == IF a < b THEN a ELSE b

\* bytes[lo:hi] of Python for 0 <= lo <= hi: indices are clamped to the length
Slice(s, lo, hi) == SubSeq(s, Min(lo, Len(s)) + 1, Min(hi, Len(s)))

\* dict[key] = value: an existing key keeps its position, a new key is appended
DictSet(d, k, v) ==
    IF \E i \in 1..Len(d) : d[i].name = k
    THEN [i \in 1..Len(d) |-> IF d[i].name = k THEN [name |-> k, conn |-> v] ELSE d[i]]
    ELSE Append(d, [name |-> k, conn |-> v])

\* dict[key] for a key that is present
DictGet(d, k) == d[CHOOSE i \in 1..Len(d) : d[i].name = k].conn

\* list(dict.values())
DictValues(d) == [i \in 1..Len(d) |-> d[i].conn]

-----------------------------------------------------------------------------
(* PacketParser *)

\* (mutation) the header format without the ethertype
eth_header_length_without_ethertype == 6 + 6

\* struct.calcsize("!6s6sH"): dst_mac(6), src_mac(6), ethertype(2), no padding
eth_header_length == 6 + 6 + 2

cpu_header_offset == eth_header_length

\* struct.unpack("!B", buf): one unsigned byte, struct.error unless len(buf) = 1
StructUnpackB(buf) ==
    IF Len(buf) = 1 THEN [error |-> FALSE, value |-> buf[1]]
                    ELSE [error |-> TRUE, value |-> 0]

\* the slice of the payload handed to struct.unpack
cpu_header(packet_data) ==
    Slice(packet_data, cpu_header_offset, cpu_header_offset + 1)

\* (mutation) struct.error is not caught
extract_ecn_value_uncaught(packet_data) ==
    LET r == StructUnpackB(cpu_header(packet_data))
    IN  IF r.error THEN [raised |-> "struct.error", value |-> 0]
                   ELSE [raised |-> "none", value |-> r.value]

\* try: return struct.unpack(...)[0]
\* except (struct.error, IndexError): print(...); return 0
extract_ecn_value(packet_data) ==
    LET r == StructUnpackB(cpu_header(packet_data))
    IN  IF r.error THEN [raised |-> "none", value |-> 0]
                   ELSE [raised |-> "none", value |-> r.value]

-----------------------------------------------------------------------------
(* Fleet configuration *)

\* SwitchConfig.SWITCHES of the ECN controller
SWITCHES ==
    << [name |-> "s1", address |-> "127.0.0.1:50051", device_id |-> 0],
       [name |-> "s2", address |-> "127.0.0.1:50052", device_id |-> 1],
       [name |-> "s3", address |-> "127.0.0.1:50053", device_id |-> 2] >>

\* the add_switch calls of the ACL controller's main
ACL_SWITCHES ==
    << [name |-> "s1", address |-> "127.0.0.1:50051", device_id |-> 0] >>

Fleet == IF prog = "ecn" THEN SWITCHES ELSE ACL_SWITCHES

-----------------------------------------------------------------------------
(* Rule construction: one protocol entry per intent *)

\* TableRuleWriter.write_ipv4_lpm_rules / ACLController.write_ipv4_lpm_rule
write_ipv4_lpm_rule(switch, dst_addr, prefix_len, dst_mac, port) ==
    [api |-> "WriteTableEntry", switch |-> switch,
     entry |-> [table_name |-> "MyIngress.ipv4_lpm",
                match_fields |-> <<"hdr.ipv4.dstAddr", dst_addr, prefix_len>>,
                action_name |-> "MyIngress.ipv4_forward",
                action_params |-> [dstAddr |-> dst_mac, port |-> port],
                has_priority |-> FALSE, priority |-> 0,
                default_action |-> FALSE]]

write_ecn_check_rules(switch, ecn_threshold) ==
    [api |-> "WriteTableEntry", switch |-> switch,
     entry |-> [table_name |-> "MyEgress.check_ecn",
                match_fields |-> <<>>,
                action_name |-> "MyEgress.mark_ecn",
                action_params |-> [ecn_threshold |-> ecn_threshold],
                has_priority |-> FALSE, priority |-> 0,
                default_action |-> TRUE]]

write_clone_rules(switch, clone_session_id, replicas) ==
    [api |-> "WritePREEntry", switch |-> switch,
     entry |-> [clone_session_id |-> clone_session_id, replicas |-> replicas]]

write_acl_ip_rule(switch, dst_addr, mask, priority) ==
    [api |-> "WriteTableEntry", switch |-> switch,
     entry |-> [table_name |-> "MyIngress.acl_ip_t",
                match_fields |-> <<"hdr.ipv4.dstAddr", dst_addr, mask>>,
                action_name |-> "MyIngress.drop",
                action_params |-> [none |-> TRUE],
                has_priority |-> TRUE, priority |-> priority,
                default_action |-> FALSE]]
\* (mutation) the UDP drop entry is built without the priority
write_acl_udp_rule_without_priority(switch, dst_port, mask, priority) ==
    [api |-> "WriteTableEntry", switch |-> switch,
     entry |-> [table_name |-> "MyIngress.acl_udp_t",
                match_fields |-> <<"hdr.udp.dstPort", dst_port, mask>>,
                action_name |-> "MyIngress.drop",
                action_params |-> [none |-> TRUE],
                has_priority |-> FALSE, priority |-> 0,
                default_action |-> FALSE]]

write_acl_udp_rule(switch, dst_port, mask, priority) ==
    [api |-> "WriteTableEntry", switch |-> switch,
     entry |-> [table_name |-> "MyIngress.acl_udp_t",
                match_fields |-> <<"hdr.udp.dstPort", dst_port, mask>>,
                action_name |-> "MyIngress.drop",
                action_params |-> [none |-> TRUE],
                has_priority |-> TRUE, priority |-> priority,
                default_action |-> FALSE]]

s1_rules ==
    << <<"10.0.1.1", 32, "08:00:00:00:01:01", 2>>,
       <<"10.0.1.11", 32, "08:00:00:00:01:11", 1>>,
       <<"10.0.2.0", 24, "08:00:00:00:02:00", 3>>,
       <<"10.0.3.0", 24, "08:00:00:00:03:00", 4>> >>

s2_rules ==
    << <<"10.0.2.2", 32, "08:00:00:00:02:02", 2>>,
       <<"10.0.2.22", 32, "08:00:00:00:02:22", 1>>,
       <<"10.0.1.0", 24, "08:00:00:00:01:00", 3>>,
       <<"10.0.3.0", 24, "08:00:00:00:03:00", 4>> >>

s3_rules ==
    << <<"10.0.3.3", 32, "08:00:00:00:03:03", 1>>,
       <<"10.0.1.0", 24, "08:00:00:00:01:00", 2>>,
       <<"10.0.2.0", 24, "08:00:00:00:02:00", 3>> >>

\* one "for match_fields, action_params in rules" loop on self.switches[name]
Ipv4Loop(sw, name, rules) ==
    [i \in 1..Len(rules) |->
        write_ipv4_lpm_rule(DictGet(sw, name), rules[i][1], rules[i][2],
                            rules[i][3], rules[i][4])]

\* the calls, in order, that each configuration method makes
_configure_ipv4_rules(sw) ==
    Ipv4Loop(sw, "s1", s1_rules) \o Ipv4Loop(sw, "s2", s2_rules)
        \o Ipv4Loop(sw, "s3", s3_rules)

_configure_ecn_rules(sw, ecn_threshold) ==
    [i \in 1..Len(sw) |-> write_ecn_check_rules(DictValues(sw)[i], ecn_threshold)]

_configure_clone_sessions(sw) ==
    [i \in 1..Len(sw) |->
        write_clone_rules(DictValues(sw)[i], 100,
                          <<[egress_port |-> 252, instance |-> 1]>>)]
\* (mutation) the clone sessions are configured before the tables
configure_routing_tables_clone_first(sw, ecn_threshold) ==
    _configure_clone_sessions(sw) \o _configure_ipv4_rules(sw)
        \o _configure_ecn_rules(sw, ecn_threshold)

configure_routing_tables(sw, ecn_threshold) ==
    _configure_ipv4_rules(sw) \o _configure_ecn_rules(sw, ecn_threshold)
        \o _configure_clone_sessions(sw)

\* the literal 4294967295 = 65535 * 2^16 + 65535 of configure_acl_rules, kept
\* as its two 16-bit words (TLC's integers are 32-bit signed)
MASK_32 == <<65535, 65535>>

host_configs ==
    << <<"10.0.1.1", "08:00:00:00:01:01", 1>>,
       <<"10.0.1.2", "08:00:00:00:01:02", 2>>,
       <<"10.0.1.3", "08:00:00:00:01:03", 3>>,
       <<"10.0.1.4", "08:00:00:00:01:04", 4>> >>

configure_acl_rules(sw) ==
    [i \in 1..Len(host_configs) |->
        write_ipv4_lpm_rule(DictGet(sw, "s1"), host_configs[i][1], 32,
                            host_configs[i][2], host_configs[i][3])]
    \o << write_acl_ip_rule(DictGet(sw, "s1"), "10.0.1.4", MASK_32, 1),
          write_acl_udp_rule(DictGet(sw, "s1"), 80, 65535, 1) >>

\* the rule writes of the running controller, in program order
RuleOps ==
    IF prog = "ecn" THEN configure_routing_tables(switches, threshold)
                    ELSE configure_acl_rules(switches)

-----------------------------------------------------------------------------
(* The environment: library calls, user input, device streams *)

\* a library call returns, raises grpc.RpcError, or raises another Exception
Outcomes == {"ok", "RpcError", "Exception"}

\* what the user types at the threshold prompt, as characters: a number
\* ("02", which int() reads as 2), a word, or nothing
Inputs == { <<"0", "2">>, <<"x">>, <<>> }

Digits == <<"0", "1", "2", "3", "4", "5", "6", "7", "8", "9">>

IsDigit(c) == \E d \in 1..10 : Digits[d] = c

DigitValue(c) == (CHOOSE d \in 1..10 : Digits[d] = c) - 1

RECURSIVE DecimalValue(_)
DecimalValue(s) ==
    IF s = <<>> THEN 0
    ELSE 10 * DecimalValue(SubSeq(s, 1, Len(s) - 1)) + DigitValue(s[Len(s)])

\* int(threshold): decimal digits give the number, anything else ValueError
PyInt(s) ==
    IF s # <<>> /\ \A i \in 1..Len(s) : IsDigit(s[i])
    THEN [error |-> FALSE, value |-> DecimalValue(s)]
    ELSE [error |-> TRUE, value |-> 0]

\* get_ecn_threshold: the number typed, or 10 on ValueError
get_ecn_threshold(typed) ==
    LET r == PyInt(typed) IN IF r.error THEN 10 ELSE r.value

\* payloads of the stream messages: n bytes, all equal to fill, except the
\* byte at the marker offset, which is marker
MkPayload(n, fill, marker) ==
    [i \in 1..n |-> IF i = cpu_header_offset + 1 THEN marker ELSE fill]

\* messages a device can put on its stream: two packets (marker 3; marker 1
\* with 3 in every other byte) and one message of another kind, whose packet
\* field is unset
Messages ==
    { [kind |-> "packet", payload |-> MkPayload(15, 0, 3)],
      [kind |-> "packet", payload |-> MkPayload(16, 3, 1)],
      [kind |-> "arbitration", payload |-> <<>>] }

\* a new Bmv2SwitchConnection with its open stream
NewConnection(config) ==
    [name |-> config.name, device_id |-> config.device_id, closed |-> FALSE,
     q |-> <<>>, status |-> "open"]

\* a request of the controller: the call made, the connection and device it is
\* made on, and whether it returned (ok) or raised
Request(op, conn, dev, ok) == [op |-> op, conn |-> conn, dev |-> dev, ok |-> ok]

-----------------------------------------------------------------------------
(* The drivers *)

\* an exception leaves the try body of main: control goes to the except clauses
Raise(e) ==
    /\ pc' = "except"
    /\ raised' = e

InitStreams == 
    /\ received = <<>>
    /\ evaluated = <<>>
    /\ alerts = <<>>
    /\ nEvents = 0
    /\ channel_errors = {}

Init ==
    /\ prog \in {"ecn", "acl"}
    /\ files \in [p4info : BOOLEAN, bmv2 : BOOLEAN]
    /\ pc = "validate_file_paths"
    /\ idx = 0
    /\ switches = <<>>
    /\ connections = <<>>
    /\ sent = <<>>
    /\ threshold = -1
    /\ raised = "none"
    /\ out = <<>>
    /\ exitcode = "running"
    /\ calls = <<>>
    /\ first_run = NoRun
    /\ InitStreams
\* (mutation) only the P4Info file is checked
validate_file_paths_p4info_only ==
    /\ pc = "validate_file_paths"
    /\ IF files.p4info
       THEN /\ pc' = "P4InfoHelper"
            /\ UNCHANGED <<raised, out, exitcode>>
       ELSE /\ pc' = "exit"
            /\ raised' = "FileNotFoundError"
            /\ out' = Append(out, "Error: file not found")
            /\ exitcode' = "1"
    /\ UNCHANGED <<first_run, calls, prog, files, idx, switches, connections, sent, threshold,
                   received, evaluated, alerts, nEvents, channel_errors>>

\* validate_file_paths, and the FileNotFoundError handler of __main__
validate_file_paths ==
    /\ pc = "validate_file_paths"
    /\ IF files.p4info /\ files.bmv2
       THEN /\ pc' = "P4InfoHelper"
            /\ UNCHANGED <<raised, out, exitcode>>
       ELSE /\ pc' = "exit"
            /\ raised' = "FileNotFoundError"
            /\ out' = Append(out, "Error: file not found")
            /\ exitcode' = "1"
    /\ UNCHANGED <<first_run, calls, prog, files, idx, switches, connections, sent, threshold,
                   received, evaluated, alerts, nEvents, channel_errors>>

\* p4runtime_lib.helper.P4InfoHelper(p4info_file_path): before the try of main
P4InfoHelper ==
    /\ pc = "P4InfoHelper"
    /\ \E o \in {"ok", "Exception"} :
          IF o = "ok"
          THEN /\ pc' = "create"
               /\ idx' = 1
               /\ UNCHANGED <<raised, exitcode>>
          ELSE /\ pc' = "exit"
               /\ raised' = o
               /\ exitcode' = "traceback"
               /\ UNCHANGED idx
    /\ UNCHANGED <<first_run, calls, prog, files, switches, connections, sent, threshold, out,
                   received, evaluated, alerts, nEvents, channel_errors>>

\* (mutation) the pipeline is pushed before mastership is claimed
initialize_switches_push_first(sw) ==
    [k \in 1..(2 * Len(sw)) |->
        [api |-> IF k % 2 = 1 THEN "SetForwardingPipelineConfig"
                              ELSE "MasterArbitrationUpdate",
         switch |-> DictValues(sw)[(k + 1) \div 2]]]

\* the library calls of initialize_switches on the connections made: for each
\* switch, in dict order, MasterArbitrationUpdate then SetForwardingPipelineConfig
initialize_switches(sw) ==
    [k \in 1..(2 * Len(sw)) |->
        [api |-> IF k % 2 = 1 THEN "MasterArbitrationUpdate"
                              ELSE "SetForwardingPipelineConfig",
         switch |-> DictValues(sw)[(k + 1) \div 2]]]

\* the library calls of the phase the driver is in, in program order
PhaseOps ==
    CASE pc = "create" -> Fleet
      [] pc = "initialize_switches" -> initialize_switches(switches)
      [] pc = "configure" -> RuleOps
      [] OTHER -> <<>>

Current == PhaseOps[idx]
\* (mutation) main starts monitor_congestion before configure_routing_tables
NextPhase_monitor_before_configure(p, phase) ==
    CASE phase = "create" -> "initialize_switches"
      [] phase = "initialize_switches" ->
            IF p = "ecn" THEN "get_ecn_threshold" ELSE "configure"
      [] phase = "get_ecn_threshold" -> "sleep"
      [] phase = "configure" -> IF p = "ecn" THEN "sleep" ELSE "completed"
      [] phase = "completed" -> "finally"
      [] OTHER -> "exit"

\* the statement of main that follows the phase when it returns
NextPhase(p, phase) ==
    CASE phase = "create" -> "initialize_switches"
      [] phase = "initialize_switches" ->
            IF p = "ecn" THEN "get_ecn_threshold" ELSE "configure"
      [] phase = "get_ecn_threshold" -> "configure"
      [] phase = "configure" -> IF p = "ecn" THEN "sleep" ELSE "completed"
      [] phase = "completed" -> "finally"
      [] OTHER -> "exit"

\* the call returned: the loop goes on, or the phase is over
Advance ==
    IF idx < Len(PhaseOps)
    THEN /\ idx' = idx + 1
         /\ UNCHANGED pc
    ELSE /\ idx' = 1
         /\ pc' = NextPhase(prog, pc)

\* (mutation) bring-up swallows the error of a device and goes on
Propagate_swallowed_in_bring_up(e) ==
    IF pc = "initialize_switches"
    THEN Advance /\ UNCHANGED raised
    ELSE Raise(e) /\ UNCHANGED idx
\* the call raised e: nothing in the methods catches it, it reaches main
Propagate(e) ==
    /\ Raise(e)
    /\ UNCHANGED idx

\* Bmv2SwitchConnection(...) in _create_switch_connection / add_switch
Bmv2SwitchConnection ==
    /\ pc = "create"
    /\ \E o \in Outcomes :
          IF o = "ok"
          THEN /\ connections' = Append(connections, NewConnection(Current))
               /\ switches' = DictSet(switches, Current.name, Len(connections) + 1)
               /\ sent' = Append(sent, Request("connect", Len(connections) + 1,
                                               Current.name, TRUE))
               /\ Advance
               /\ UNCHANGED raised
          ELSE /\ sent' = Append(sent, Request("connect", 0, Current.name, FALSE))
               /\ Propagate(o)
               /\ UNCHANGED <<connections, switches>>
    /\ UNCHANGED <<first_run, calls, prog, files, threshold, out, received, evaluated, alerts,
                   exitcode, nEvents, channel_errors>>

\* one request/response call of the library on a connection
LibraryCall(api) ==
    /\ Current.api = api
    /\ \E o \in Outcomes :
          /\ sent' = Append(sent, Request(api, Current.switch,
                                          connections[Current.switch].name, o = "ok"))
          /\ IF o = "ok" THEN Advance /\ UNCHANGED raised ELSE Propagate(o)
    /\ UNCHANGED <<first_run, calls, prog, files, switches, connections, threshold, out, received,
                   evaluated, alerts, exitcode, nEvents, channel_errors>>

MasterArbitrationUpdate ==
    /\ pc = "initialize_switches"
    /\ LibraryCall("MasterArbitrationUpdate")

SetForwardingPipelineConfig ==
    /\ pc = "initialize_switches"
    /\ LibraryCall("SetForwardingPipelineConfig")

\* main: ecn_threshold = get_ecn_threshold(); input() itself may raise (EOFError)
ReadThreshold ==
    /\ pc = "get_ecn_threshold"
    /\ \/ \E typed \in Inputs :
             /\ threshold' = get_ecn_threshold(typed)
             /\ Advance
             /\ UNCHANGED raised
       \/ /\ Propagate("Exception")
          /\ UNCHANGED threshold
    /\ UNCHANGED <<first_run, calls, prog, files, switches, connections, sent, out, received,
                   evaluated, alerts, exitcode, nEvents, channel_errors>>

\* one rule write: the entry is built (buildTableEntry / buildCloneSessionEntry
\* may raise, and then nothing is written), then handed to the connection
RuleWrite(api) ==
    /\ Current.api = api
    /\ \/ \E o \in Outcomes :
             /\ sent' = Append(sent, [op |-> api, conn |-> Current.switch,
                                      dev |-> connections[Current.switch].name,
                                      ok |-> (o = "ok"), entry |-> Current.entry])
             /\ IF o = "ok" THEN Advance /\ UNCHANGED raised ELSE Propagate(o)
       \/ /\ Propagate("Exception")
          /\ UNCHANGED sent
    /\ UNCHANGED <<first_run, calls, prog, files, switches, connections, threshold, out, received,
                   evaluated, alerts, exitcode, nEvents, channel_errors>>

WriteTableEntry ==
    /\ pc = "configure"
    /\ RuleWrite("WriteTableEntry")

WritePREEntry ==
    /\ pc = "configure"
    /\ RuleWrite("WritePREEntry")

\* ACL main: print("ACL configuration completed successfully!")
Completed ==
    /\ pc = "completed"
    /\ out' = Append(out, "ACL configuration completed successfully!")
    /\ pc' = NextPhase(prog, pc)
    /\ UNCHANGED <<first_run, calls, prog, files, idx, switches, connections, sent, threshold,
                   raised, received, evaluated, alerts, exitcode, nEvents, channel_errors>>

-----------------------------------------------------------------------------
(* monitor_congestion *)

Monitoring == pc \in {"sleep", "fetch"}

\* the connection whose stream _fetch_and_process_responses is iterating
FetchConn == DictValues(switches)[idx]

\* (mutation) the alert is printed for every non-zero value
_handle_packet_response_nonzero(packet_data) ==
    LET r == extract_ecn_value(packet_data)
    IN  [raised |-> r.raised, ecn_value |-> r.value,
         congestion |-> (r.raised = "none" /\ r.value # 0)]
\* (mutation) the alert is printed when the value reaches the threshold
_handle_packet_response_threshold(packet_data) ==
    LET r == extract_ecn_value(packet_data)
    IN  [raised |-> r.raised, ecn_value |-> r.value,
         congestion |-> (r.raised = "none" /\ r.value >= threshold)]

\* _handle_packet_response: the value printed, and whether the alert is printed
_handle_packet_response(packet_data) ==
    LET r == extract_ecn_value(packet_data)
    IN  [raised |-> r.raised, ecn_value |-> r.value,
         congestion |-> (r.raised = "none" /\ r.value = 3)]

\* the body of "for response in switch.stream_msg_resp" selects the messages
\* it hands to _handle_packet_response
IsPacket(response) == response.kind = "packet"

\* the iteration of one stream is over (it ended, or raised RpcError which is
\* caught and passed): _process_switch_responses goes to the next switch, and
\* after the last one monitor_congestion sleeps again
NextSwitch ==
    IF idx < Len(switches)
    THEN /\ idx' = idx + 1
         /\ UNCHANGED pc
    ELSE /\ idx' = 1
         /\ pc' = "sleep"
\* (mutation) the RpcError of a stream is not caught by the fetch loop
OnStreamError_propagates == Raise("RpcError") /\ UNCHANGED idx

\* what _fetch_and_process_responses does when the iteration raises RpcError
OnStreamError == NextSwitch /\ UNCHANGED raised

\* sleep(1); print('.'); self._process_switch_responses()
Sleep ==
    /\ pc = "sleep"
    /\ pc' = "fetch"
    /\ idx' = 1
    /\ UNCHANGED <<first_run, calls, prog, files, switches, connections, sent, threshold, raised,
                   out, received, evaluated, alerts, exitcode, nEvents, channel_errors>>

\* the stream yields its next message
FetchResponse ==
    /\ pc = "fetch"
    /\ connections[FetchConn].q # <<>>
    /\ LET response == Head(connections[FetchConn].q)
           h == _handle_packet_response(response.payload)
       IN  /\ connections' = [connections EXCEPT ![FetchConn].q = Tail(@)]
           /\ received' = Append(received, [conn |-> FetchConn, response |-> response])
           /\ IF ~IsPacket(response)
              THEN UNCHANGED <<evaluated, alerts, pc, raised>>
              ELSE IF h.raised # "none"
              THEN \* neither RpcError nor KeyboardInterrupt: it reaches main
                   /\ Raise("Exception")
                   /\ UNCHANGED <<evaluated, alerts>>
              ELSE /\ evaluated' = Append(evaluated,
                                     [conn |-> FetchConn, payload |-> response.payload,
                                      ecn_value |-> h.ecn_value])
                   /\ alerts' = IF h.congestion
                                THEN Append(alerts, [conn |-> FetchConn,
                                                     ecn_value |-> h.ecn_value])
                                ELSE alerts
                   /\ UNCHANGED <<pc, raised>>
    /\ UNCHANGED <<first_run, calls, prog, files, idx, switches, sent, threshold, out,
                   exitcode, nEvents, channel_errors>>

\* the stream is exhausted: StopIteration ends the for loop
FetchEnd ==
    /\ pc = "fetch"
    /\ connections[FetchConn].q = <<>>
    /\ connections[FetchConn].status = "ended"
    /\ NextSwitch
    /\ UNCHANGED <<first_run, calls, prog, files, switches, connections, sent, threshold, raised,
                   out, received, evaluated, alerts, exitcode, nEvents, channel_errors>>

\* the stream raises grpc.RpcError: except grpc.RpcError: pass
FetchError ==
    /\ pc = "fetch"
    /\ connections[FetchConn].q = <<>>
    /\ connections[FetchConn].status = "error"
    /\ OnStreamError
    /\ channel_errors' = channel_errors \cup {FetchConn}
    /\ UNCHANGED <<first_run, calls, prog, files, switches, connections, sent, threshold,
                   out, received, evaluated, alerts, exitcode, nEvents>>

-----------------------------------------------------------------------------
(* Device streams.  Nothing in the drivers reads a stream before the        *)
(* monitoring loop does, so what a device does to its stream earlier is     *)
(* observed there as if it happened when monitoring starts.                 *)

StreamOpen(c) ==
    /\ c \in 1..Len(connections)
    /\ ~connections[c].closed
    /\ connections[c].status = "open"

Deliver ==
    /\ Monitoring
    /\ nEvents < MaxEvents
    /\ \E c \in 1..Len(connections), m \in Messages :
          /\ StreamOpen(c)
          /\ connections' = [connections EXCEPT ![c].q = Append(@, m)]
    /\ nEvents' = nEvents + 1
    /\ UNCHANGED <<first_run, calls, prog, files, pc, idx, switches, sent, threshold, raised, out,
                   received, evaluated, alerts, exitcode, channel_errors>>

StreamEnd ==
    /\ Monitoring
    /\ \E c \in 1..Len(connections) :
          /\ StreamOpen(c)
          /\ connections' = [connections EXCEPT ![c].status = "ended"]
    /\ UNCHANGED <<first_run, calls, prog, files, pc, idx, switches, sent, threshold, raised, out,
                   received, evaluated, alerts, exitcode, nEvents, channel_errors>>

StreamError ==
    /\ Monitoring
    /\ \E c \in 1..Len(connections) :
          /\ StreamOpen(c)
          /\ connections' = [connections EXCEPT ![c].status = "error"]
    /\ UNCHANGED <<first_run, calls, prog, files, pc, idx, switches, sent, threshold, raised, out,
                   received, evaluated, alerts, exitcode, nEvents, channel_errors>>

-----------------------------------------------------------------------------
(* Interrupt, except clauses, finally *)

InTry == pc \in {"create", "initialize_switches", "get_ecn_threshold",
                 "configure", "completed", "sleep", "fetch"}

\* (mutation) monitor_congestion has no except clause
monitor_congestion_catches_nothing(p, at) == FALSE

\* the try of monitor_congestion: a KeyboardInterrupt raised while the loop of
\* the ECN driver sleeps or fetches is caught by its except clause
monitor_congestion_catches(p, at) == p = "ecn" /\ at \in {"sleep", "fetch"}

\* KeyboardInterrupt (Ctrl-C) while a statement of the driver runs, before the
\* except and finally clauses of main have been entered
Interrupt ==
    /\ pc \in {"validate_file_paths", "P4InfoHelper"} \/ InTry
    /\ IF ~InTry
       THEN \* before the try of main: nothing catches it
            /\ pc' = "exit"
            /\ raised' = "KeyboardInterrupt"
            /\ exitcode' = "traceback"
            /\ UNCHANGED out
       ELSE IF monitor_congestion_catches(prog, pc)
       THEN \* monitor_congestion: except KeyboardInterrupt, then it returns
            /\ pc' = "finally"
            /\ out' = Append(out, "Shutting down monitoring.")
            /\ UNCHANGED <<raised, exitcode>>
       ELSE /\ Raise("KeyboardInterrupt")
            /\ UNCHANGED <<out, exitcode>>
    /\ UNCHANGED <<first_run, calls, prog, files, idx, switches, connections, sent, threshold,
                   received, evaluated, alerts, nEvents, channel_errors>>

\* the except clauses of main: which exceptions each driver catches
Catches(p, e) ==
    IF p = "ecn" THEN e \in {"RpcError", "Exception"}
                 ELSE e \in {"KeyboardInterrupt", "RpcError"}

\* (mutation) teardown is skipped when no except clause caught the exception
AfterExcept_only_when_caught(caught) == IF caught THEN "finally" ELSE "exit"

\* try/except/finally of main: the finally clause runs next, whether or not
\* an except clause caught the exception
AfterExcept(caught) == "finally"

Except ==
    /\ pc = "except"
    /\ pc' = AfterExcept(Catches(prog, raised))
    /\ IF Catches(prog, raised)
       THEN /\ out' = Append(out, raised)
            /\ raised' = "none"
       ELSE UNCHANGED <<out, raised>>
    /\ UNCHANGED <<first_run, calls, prog, files, idx, switches, connections, sent, threshold,
                   received, evaluated, alerts, exitcode, nEvents, channel_errors>>

\* ShutdownAllSwitchConnections(): shutdown() of every connection created
ShutdownAllSwitchConnections(conns) ==
    [c \in 1..Len(conns) |-> [conns[c] EXCEPT !.closed = TRUE]]

\* the requests that the finally clause of main issues
main_finally(conns) ==
    [c \in 1..Len(conns) |-> Request("shutdown", c, conns[c].name, TRUE)]

Finally ==
    /\ pc = "finally"
    /\ connections' = ShutdownAllSwitchConnections(connections)
    /\ sent' = sent \o main_finally(connections)
    /\ out' = Append(out, "ShutdownAllSwitchConnections")
    /\ pc' = "exit"
    /\ exitcode' = IF raised = "none" THEN "0" ELSE "traceback"
    /\ UNCHANGED <<first_run, calls, prog, files, idx, switches, threshold, raised, received,
                   evaluated, alerts, nEvents, channel_errors>>

-----------------------------------------------------------------------------

Next ==
    \/ validate_file_paths
    \/ P4InfoHelper
    \/ Bmv2SwitchConnection
    \/ MasterArbitrationUpdate
    \/ SetForwardingPipelineConfig
    \/ ReadThreshold
    \/ WriteTableEntry
    \/ WritePREEntry
    \/ Completed
    \/ Sleep
    \/ FetchResponse
    \/ FetchEnd
    \/ FetchError
    \/ Deliver
    \/ StreamEnd
    \/ StreamError
    \/ Interrupt
    \/ Except
    \/ Finally

Spec == Init /\ [][Next]_vars

\* the driver's own steps: the interpreter runs the one thread of the driver,
\* so a step that can be taken is taken; devices and the user are not obliged
\* to do anything
Driver ==
    \/ validate_file_paths
    \/ P4InfoHelper
    \/ Bmv2SwitchConnection
    \/ MasterArbitrationUpdate
    \/ SetForwardingPipelineConfig
    \/ ReadThreshold
    \/ WriteTableEntry
    \/ WritePREEntry
    \/ Completed
    \/ Sleep
    \/ FetchResponse
    \/ FetchEnd
    \/ FetchError
    \/ Except
    \/ Finally

FairSpec == Init /\ [][Next]_vars /\ WF_vars(Driver)

-----------------------------------------------------------------------------
(* The monitoring loop on one received packet, for every bounded payload *)

Bytes == {0, 1, 3, 255}

\* a payload of n bytes equal to fill, but for the marker byte and byte j
MkPayload2(n, fill, marker, j, b) ==
    [i \in 1..n |-> IF i = cpu_header_offset + 1 THEN marker
                    ELSE IF i = j THEN b ELSE fill]

DecodePayloads ==
    { MkPayload2(n, fill, marker, j, b) :
        n \in 0..MaxPayloadLen, fill \in Bytes, marker \in Bytes,
        j \in 1..MaxPayloadLen, b \in Bytes }

\* self.switches and the connections after the three connections were made
SwitchesCreated == [i \in 1..Len(SWITCHES) |-> [name |-> SWITCHES[i].name, conn |-> i]]

ConnectionsCreated == [i \in 1..Len(SWITCHES) |-> NewConnection(SWITCHES[i])]

\* the requests of a bring-up and rule installation in which every call returned
SentAllOk(thr) ==
    [i \in 1..Len(SWITCHES) |-> Request("connect", i, SWITCHES[i].name, TRUE)]
    \o [k \in 1..(2 * Len(SWITCHES)) |->
          Request(initialize_switches(SwitchesCreated)[k].api,
                  initialize_switches(SwitchesCreated)[k].switch,
                  SWITCHES[initialize_switches(SwitchesCreated)[k].switch].name, TRUE)]
    \o [k \in 1..Len(configure_routing_tables(SwitchesCreated, thr)) |->
          LET w == configure_routing_tables(SwitchesCreated, thr)[k]
          IN  [op |-> w.api, conn |-> w.switch, dev |-> SWITCHES[w.switch].name,
               ok |-> TRUE, entry |-> w.entry]]

\* the ECN controller in its first polling pass, reading the stream of s1, on
\* which the device has put one packet
DecodeInit ==
    /\ prog = "ecn"
    /\ files = [p4info |-> TRUE, bmv2 |-> TRUE]
    /\ pc = "fetch"
    /\ idx = 1
    /\ switches = SwitchesCreated
    /\ \E p \in DecodePayloads :
          connections = [ConnectionsCreated EXCEPT
                            ![1].q = <<[kind |-> "packet", payload |-> p]>>]
    /\ threshold = 10
    /\ sent = SentAllOk(threshold)
    /\ raised = "none"
    /\ out = <<>>
    /\ exitcode = "running"
    /\ received = <<>>
    /\ evaluated = <<>>
    /\ alerts = <<>>
    /\ nEvents = 1
    /\ channel_errors = {}
    /\ calls = <<>>
    /\ first_run = NoRun

DecodeNext == FetchResponse

DecodeSpec == DecodeInit /\ [][DecodeNext]_vars

\* DecodeInit with the congested packet of Messages as its payload: a state
\* that Spec reaches
DecodeInitInSpec ==
    /\ prog = "ecn" /\ pc = "fetch" /\ idx = 1 /\ threshold = 10
    /\ switches = SwitchesCreated
    /\ connections = [ConnectionsCreated EXCEPT
                        ![1].q = <<[kind |-> "packet", payload |-> MkPayload(15, 0, 3)]>>]
    /\ sent = SentAllOk(threshold)
    /\ received = <<>> /\ nEvents = 1 /\ channel_errors = {} /\ out = <<>>

-----------------------------------------------------------------------------
(* The methods of ACLController called in any order.  A client holds one    *)
(* controller and its P4Info helper and calls add_switch,                   *)
(* initialize_switches and the three write methods with arguments of its    *)
(* choice; every call runs to its end (it returns or raises to the client). *)

\* calls made by the client in one run
MaxCalls == 3

\* the switches a client adds: the first two of the triangle
ClientSwitches == {SWITCHES[1], SWITCHES[2]}

\* the switch a client names in a write call
ClientTargets == {"s1", "s2"}

\* prefix lengths of the routes a client writes: a host route, one past 32 and
\* a negative one
PrefixLens == {-1, 32, 33}

\* the drop rules a client writes: the two of configure_acl_rules and one
\* more of each kind with another value, mask and priority
AclIpIntents ==
    { [dst_addr |-> "10.0.1.4", mask |-> MASK_32, priority |-> 1],
      [dst_addr |-> "10.0.2.0", mask |-> <<65535, 65280>>, priority |-> 7] }

AclUdpIntents ==
    { [dst_port |-> 80, mask |-> 65535, priority |-> 1],
      [dst_port |-> 5000, mask |-> 65280, priority |-> 3] }

\* key in self.switches
HasKey(d, k) == \E i \in 1..Len(d) : d[i].name = k

\* the record of a call: the method, the switch named, the intent passed, how
\* it ended, and the position in the history of the write it sent (0: none)
Call(op, switch_name, intent, result, sent_at) ==
    [op |-> op, switch_name |-> switch_name, intent |-> intent,
     result |-> result, sent_at |-> sent_at]

ApiInit ==
    /\ prog = "acl"
    /\ files = [p4info |-> TRUE, bmv2 |-> TRUE]
    /\ pc = "client"
    /\ idx = 0
    /\ switches = <<>>
    /\ connections = <<>>
    /\ sent = <<>>
    /\ threshold = -1
    /\ raised = "none"
    /\ out = <<>>
    /\ exitcode = "running"
    /\ calls = <<>>
    /\ first_run = NoRun
    /\ InitStreams

ClientCanCall == pc = "client" /\ Len(calls) < MaxCalls

\* ACLController.add_switch(name, address, device_id)
add_switch ==
    /\ ClientCanCall
    /\ \E config \in ClientSwitches, o \in {"ok", "Exception"} :
          /\ IF o = "ok"
             THEN /\ connections' = Append(connections, NewConnection(config))
                  /\ switches' = DictSet(switches, config.name, Len(connections) + 1)
                  /\ sent' = Append(sent, Request("connect", Len(connections) + 1,
                                                  config.name, TRUE))
             ELSE /\ sent' = Append(sent, Request("connect", 0, config.name, FALSE))
                  /\ UNCHANGED <<connections, switches>>
          /\ calls' = Append(calls, Call("add_switch", config.name, <<>>, o, 0))
    /\ UNCHANGED <<first_run, prog, files, pc, idx, threshold, raised, out, received,
                   evaluated, alerts, exitcode, nEvents, channel_errors>>

\* the requests of one call of initialize_switches in which request number
\* failed raises (0: every request returns)
InitializeRequests(failed) ==
    LET ops == initialize_switches(switches)
        n == IF failed = 0 THEN Len(ops) ELSE failed
    IN  [k \in 1..n |-> Request(ops[k].api, ops[k].switch,
                                connections[ops[k].switch].name, k # failed)]

\* ACLController.initialize_switches()
call_initialize_switches ==
    /\ ClientCanCall
    /\ \E failed \in 0..(2 * Len(switches)) :
          /\ sent' = sent \o InitializeRequests(failed)
          /\ calls' = Append(calls, Call("initialize_switches", "", <<>>,
                                         IF failed = 0 THEN "ok" ELSE "RpcError", 0))
    /\ UNCHANGED <<first_run, prog, files, pc, idx, switches, connections, threshold, raised,
                   out, received, evaluated, alerts, exitcode, nEvents,
                   channel_errors>>

\* one write method called by the client: buildTableEntry (which may raise),
\* then self.switches[switch_name] (KeyError for a name never added), then
\* WriteTableEntry on that connection (which may raise)
ClientWrite(op, switch_name, intent, rule) ==
    /\ \/ /\ calls' = Append(calls, Call(op, switch_name, intent, "Exception", 0))
          /\ UNCHANGED sent
       \/ /\ ~HasKey(switches, switch_name)
          /\ calls' = Append(calls, Call(op, switch_name, intent, "KeyError", 0))
          /\ UNCHANGED sent
       \/ /\ HasKey(switches, switch_name)
          /\ \E o \in {"ok", "RpcError"} :
                /\ sent' = Append(sent, [op |-> rule.api, conn |-> rule.switch,
                                         dev |-> connections[rule.switch].name,
                                         ok |-> (o = "ok"), entry |-> rule.entry])
                /\ calls' = Append(calls, Call(op, switch_name, intent, o,
                                               Len(sent) + 1))
    /\ UNCHANGED <<first_run, prog, files, pc, idx, switches, connections, threshold, raised,
                   out, received, evaluated, alerts, exitcode, nEvents,
                   channel_errors>>

\* self.switches[switch_name] where the name is present, connection 0 otherwise
\* (no write is made on it then)
SwitchOf(switch_name) ==
    IF HasKey(switches, switch_name) THEN DictGet(switches, switch_name) ELSE 0

\* ACLController.write_ipv4_lpm_rule(switch_name, dst_addr, prefix_len, dst_mac, port)
call_write_ipv4_lpm_rule ==
    /\ ClientCanCall
    /\ \E switch_name \in ClientTargets, prefix_len \in PrefixLens :
             ClientWrite("write_ipv4_lpm_rule", switch_name,
                         [dst_addr |-> "10.0.1.1", prefix_len |-> prefix_len],
                         write_ipv4_lpm_rule(SwitchOf(switch_name), "10.0.1.1", prefix_len,
                                             "08:00:00:00:01:01", 1))

\* ACLController.write_acl_ip_rule(switch_name, dst_addr, mask, priority)
call_write_acl_ip_rule ==
    /\ ClientCanCall
    /\ \E switch_name \in ClientTargets, i \in AclIpIntents :
             ClientWrite("write_acl_ip_rule", switch_name, i,
                         write_acl_ip_rule(SwitchOf(switch_name), i.dst_addr, i.mask,
                                           i.priority))

\* ACLController.write_acl_udp_rule(switch_name, dst_port, mask, priority)
call_write_acl_udp_rule ==
    /\ ClientCanCall
    /\ \E switch_name \in ClientTargets, i \in AclUdpIntents :
             ClientWrite("write_acl_udp_rule", switch_name, i,
                         write_acl_udp_rule(SwitchOf(switch_name), i.dst_port, i.mask,
                                            i.priority))

ApiNext ==
    \/ add_switch
    \/ call_initialize_switches
    \/ call_write_ipv4_lpm_rule
    \/ call_write_acl_ip_rule
    \/ call_write_acl_udp_rule

ApiSpec == ApiInit /\ [][ApiNext]_vars

-----------------------------------------------------------------------------
(* Two runs of the ECN controller on the same events.  The controller is    *)
(* started twice against devices that put the same messages on the stream   *)
(* of s1; each run is brought up, prompts for its own threshold, installs   *)
(* its rules and monitors.  What the first run showed is kept in first_run  *)
(* when the second one starts.                                              *)

\* the sequences of messages the device puts on its stream
EventSeqs == UNION { [1..n -> Messages] : n \in 0..MaxEvents }

\* the requests of a bring-up in which every call returned
BroughtUp == SubSeq(SentAllOk(0), 1, 3 * Len(SWITCHES))

\* a run that has been brought up and is about to prompt for the threshold,
\* with the messages e waiting on the stream of s1
RunStarts(e) ==
    /\ prog = "ecn"
    /\ files = [p4info |-> TRUE, bmv2 |-> TRUE]
    /\ pc = "get_ecn_threshold"
    /\ idx = 1
    /\ switches = SwitchesCreated
    /\ connections = [ConnectionsCreated EXCEPT ![1].q = e]
    /\ sent = BroughtUp
    /\ threshold = -1
    /\ raised = "none"
    /\ out = <<>>
    /\ exitcode = "running"
    /\ received = <<>>
    /\ evaluated = <<>>
    /\ alerts = <<>>
    /\ nEvents = Len(e)
    /\ channel_errors = {}
    /\ calls = <<>>

TwoRunsInit ==
    \E e \in EventSeqs :
       /\ RunStarts(e)
       /\ first_run = [NoRun EXCEPT !.events = e]

\* the first run is monitoring; the controller is started again on the same
\* events, and what the first run sent, received and alerted is kept
SecondRun ==
    /\ ~first_run.done
    /\ pc = "fetch"
    /\ first_run' = [done |-> TRUE, events |-> first_run.events,
                     threshold |-> threshold, sent |-> sent,
                     received |-> received, alerts |-> alerts]
    /\ pc' = "get_ecn_threshold"
    /\ idx' = 1
    /\ connections' = [ConnectionsCreated EXCEPT ![1].q = first_run.events]
    /\ sent' = BroughtUp
    /\ threshold' = -1
    /\ received' = <<>>
    /\ evaluated' = <<>>
    /\ alerts' = <<>>
    /\ UNCHANGED <<prog, files, switches, raised, out, exitcode, nEvents,
                   channel_errors, calls>>

TwoRunsNext ==
    \/ ReadThreshold
    \/ WriteTableEntry
    \/ WritePREEntry
    \/ Sleep
    \/ FetchResponse
    \/ SecondRun

TwoRunsSpec == TwoRunsInit /\ [][TwoRunsNext]_vars

-----------------------------------------------------------------------------
(* Properties *)

IsWrite(r) == r.op \in {"WriteTableEntry", "WritePREEntry"}

IsBringUp(r) ==
    r.op \in {"connect", "MasterArbitrationUpdate", "SetForwardingPipelineConfig"}

\* request op was made on device dev, and returned, before position k of sent
DoneBefore(op, dev, k) ==
    \E j \in 1..(k - 1) : sent[j].op = op /\ sent[j].dev = dev /\ sent[j].ok

\* C1: bring-up is a barrier.  A rule write (table entry or clone session) is
\* issued only after connect, MasterArbitrationUpdate and
\* SetForwardingPipelineConfig have returned on every configured device, in
\* that order on each (stated of the first rule write, which every other one
\* follows); and once a bring-up request has failed on any device no rule
\* write is ever issued.
C1_BringUpBarrier ==
    /\ \A k \in 1..Len(sent) :
          (IsWrite(sent[k]) /\ \A i \in 1..(k - 1) : ~IsWrite(sent[i])) =>
             \A f \in 1..Len(Fleet) :
                \E a \in 1..(k - 1) :
                   /\ sent[a].op = "connect" /\ sent[a].dev = Fleet[f].name /\ sent[a].ok
                   /\ \E b \in (a + 1)..(k - 1) :
                         /\ sent[b].op = "MasterArbitrationUpdate"
                         /\ sent[b].dev = Fleet[f].name /\ sent[b].ok
                         /\ \E c \in (b + 1)..(k - 1) :
                               /\ sent[c].op = "SetForwardingPipelineConfig"
                               /\ sent[c].dev = Fleet[f].name /\ sent[c].ok
    /\ (\E j \in 1..Len(sent) : IsBringUp(sent[j]) /\ ~sent[j].ok)
          => \A k \in 1..Len(sent) : ~IsWrite(sent[k])

\* the ECN controller has issued a rule write to s3, the last device brought up
C1_Witness ==
    /\ prog = "ecn"
    /\ \E k \in 1..Len(sent) : IsWrite(sent[k]) /\ sent[k].dev = "s3"

\* C2: on every device MasterArbitrationUpdate comes first.  Every
\* SetForwardingPipelineConfig and every rule write in the history is preceded
\* by a MasterArbitrationUpdate that returned on the same connection.
C2_ArbitrationFirst ==
    \A k \in 1..Len(sent) :
       (sent[k].op = "SetForwardingPipelineConfig" \/ IsWrite(sent[k])) =>
          \E j \in 1..(k - 1) :
             /\ sent[j].op = "MasterArbitrationUpdate"
             /\ sent[j].conn = sent[k].conn
             /\ sent[j].ok

\* the pipeline was pushed to s2 of the ECN fleet and a clone session written on it
C2_Witness ==
    /\ prog = "ecn"
    /\ \E k, m \in 1..Len(sent) :
          /\ sent[k].op = "SetForwardingPipelineConfig" /\ sent[k].dev = "s2"
          /\ sent[m].op = "WritePREEntry" /\ sent[m].dev = "s2"

\* device dev is Ready: mastership claimed and program pushed
Ready(dev) ==
    /\ DoneBefore("MasterArbitrationUpdate", dev, Len(sent) + 1)
    /\ DoneBefore("SetForwardingPipelineConfig", dev, Len(sent) + 1)

\* C3: a failure of one device's bring-up does not prevent the bring-up of
\* the others.  When the ECN driver has ended after SetForwardingPipelineConfig
\* failed on s2 (the only request that failed), s1 and s3 are Ready: both
\* have had MasterArbitrationUpdate and SetForwardingPipelineConfig return.
C3_FailureDoesNotStopBringUp ==
    ( /\ pc = "exit"
      /\ prog = "ecn"
      /\ \E j \in 1..Len(sent) :
            /\ sent[j].op = "SetForwardingPipelineConfig"
            /\ sent[j].dev = "s2"
            /\ ~sent[j].ok
            /\ \A i \in 1..Len(sent) : ~sent[i].ok => i = j )
    => (Ready("s1") /\ Ready("s3"))

\* a packet waits on the stream of connection c
PendingPacket(c) ==
    /\ c \in 1..Len(connections)
    /\ \E i \in 1..Len(connections[c].q) : IsPacket(connections[c].q[i])

\* C4: no stream starves another.  While monitoring runs, a packet that has
\* arrived on the stream of any device is eventually taken off that stream,
\* decoded and evaluated (or monitoring has been stopped), even while the
\* stream of another device stays open and yields nothing.
C4_NoStarvation ==
    \A c \in 1..Len(SWITCHES) :
       (Monitoring /\ PendingPacket(c)) ~> (~Monitoring \/ ~PendingPacket(c))

\* C5: a channel error on one device does not stop the monitoring of the
\* others.  Once the loop has caught the RpcError of device d's stream, a
\* packet that is available on the stream of any other device is eventually
\* decoded and evaluated (or monitoring has been stopped).
C5_ErrorDoesNotStopOthers ==
    \A d \in 1..Len(SWITCHES) : \A c \in (1..Len(SWITCHES)) \ {d} :
       (Monitoring /\ d \in channel_errors /\ PendingPacket(c))
          ~> (~Monitoring \/ ~PendingPacket(c))

\* the length in bytes of the link-layer header that precedes the marker byte
LinkHeaderLen == 14

\* the marker byte of a payload is 3
MarkerIs3(p) == Len(p) >= LinkHeaderLen + 1 /\ p[LinkHeaderLen + 1] = 3

\* the alerts printed for connection c, in order
AlertsOf(c) ==
    LET OfC(a) == a.conn = c IN SelectSeq(alerts, OfC)

\* the received messages of connection c that are packets with marker 3, in order
CongestedOf(c) ==
    LET Hit(r) == r.conn = c /\ IsPacket(r.response) /\ MarkerIs3(r.response.payload)
    IN  SelectSeq(received, Hit)

\* C6: for each device, the alerts are exactly the received packet messages
\* whose marker is 3, one alert each, in the order received; nothing else
\* raises an alert.
C6_AlertPerCongestedPacket ==
    \A c \in 1..Len(connections) :
       AlertsOf(c) = [i \in 1..Len(CongestedOf(c)) |-> [conn |-> c, ecn_value |-> 3]]

\* s1 sent a packet with marker 1 and then one with marker 3: one alert
C6_Witness ==
    /\ Len(received) = 2
    /\ received[1].conn = 1 /\ received[2].conn = 1
    /\ received[1].response = [kind |-> "packet", payload |-> MkPayload(16, 3, 1)]
    /\ received[2].response = [kind |-> "packet", payload |-> MkPayload(15, 0, 3)]
    /\ alerts = <<[conn |-> 1, ecn_value |-> 3]>>

\* C7: for a received packet whose payload has at least LinkHeaderLen + 1
\* bytes, the value decoded is the byte at offset LinkHeaderLen, whatever the
\* other bytes and the length are.
C7_DecodeReadsMarkerByte ==
    \A k \in 1..Len(received) :
       LET p == received[k].response.payload
       IN  (IsPacket(received[k].response) /\ Len(p) >= LinkHeaderLen + 1) =>
              /\ k <= Len(evaluated)
              /\ evaluated[k].payload = p
              /\ evaluated[k].ecn_value = p[LinkHeaderLen + 1]

\* a 16-byte payload of 3s with marker 255 was decoded to 255
C7_Witness ==
    /\ Len(evaluated) = 1
    /\ evaluated[1].payload = [i \in 1..16 |-> IF i = 15 THEN 255 ELSE 3]
    /\ evaluated[1].ecn_value = 255

\* C8: for a received packet whose payload is shorter than LinkHeaderLen + 1
\* bytes (the empty payload included), the value decoded is 0, no error is
\* raised, no alert is printed, and the monitoring loop goes on.
C8_TruncatedIsNoSignal ==
    \A k \in 1..Len(received) :
       LET p == received[k].response.payload
       IN  (IsPacket(received[k].response) /\ Len(p) < LinkHeaderLen + 1) =>
              /\ k <= Len(evaluated)
              /\ evaluated[k].payload = p
              /\ evaluated[k].ecn_value = 0
              /\ alerts = <<>>
              /\ raised = "none"
              /\ pc = "fetch"
              /\ exitcode = "running"

\* a 14-byte payload of 3s was received and decoded to 0
C8_Witness ==
    /\ Len(received) = 1
    /\ received[1].response.payload = [i \in 1..14 |-> 3]
    /\ Len(evaluated) = 1
    /\ evaluated[1].ecn_value = 0

\* C9: teardown runs on every exit path.  When the driver has ended and a
\* connection was created, a shutdown was requested for every connection
\* created, after its creation, and every connection is closed.
C9_TeardownOnEveryExit ==
    (pc = "exit" /\ connections # <<>>) =>
       \A c \in 1..Len(connections) :
          /\ connections[c].closed
          /\ \E a \in 1..Len(sent) :
                /\ sent[a].op = "connect" /\ sent[a].conn = c
                /\ \E k \in (a + 1)..Len(sent) :
                      sent[k].op = "shutdown" /\ sent[k].conn = c

\* the ECN driver ended by an interrupt that main does not catch, with
\* connections created and shut down
C9_Witness ==
    /\ pc = "exit"
    /\ prog = "ecn"
    /\ raised = "KeyboardInterrupt"
    /\ Len(connections) = 2
    /\ \A c \in 1..Len(connections) : connections[c].closed

\* C10: collect-all-errors.  When the driver has ended and a rule write has
\* failed, every configured entry has nevertheless been attempted: the
\* history holds as many rule writes as the configuration has entries.
C10_AllEntriesAttempted ==
    (pc = "exit" /\ \E k \in 1..Len(sent) : IsWrite(sent[k]) /\ ~sent[k].ok) =>
       LET Written(r) == IsWrite(r)
       IN  Len(SelectSeq(sent, Written)) = Len(RuleOps)

\* what a rule write of the history installs: the clone session, the default
\* action of a table, or the entry of a table for a match value
KindOf(r) ==
    IF r.op = "WritePREEntry" THEN <<"clone_session", r.entry.clone_session_id>>
    ELSE IF r.entry.default_action THEN <<"default_action", r.entry.table_name>>
    ELSE <<r.entry.table_name, r.entry.match_fields[2]>>

\* the rule writes of the history made on device dev, in the order made
WritesOn(dev) ==
    LET OnDev(r) == IsWrite(r) /\ r.dev = dev IN SelectSeq(sent, OnDev)

\* the route list that _configure_ipv4_rules holds for a switch of the ECN fleet
RulesOf(dev) ==
    CASE dev = "s1" -> s1_rules [] dev = "s2" -> s2_rules [] dev = "s3" -> s3_rules

\* the configured sequence of a device: in the ECN controller its routes in
\* list order, then the ECN default action, then the clone session; in the
\* ACL controller the four host routes, then the IP drop, then the UDP drop
ConfiguredOn(dev) ==
    IF prog = "ecn"
    THEN [i \in 1..Len(RulesOf(dev)) |-> <<"MyIngress.ipv4_lpm", RulesOf(dev)[i][1]>>]
            \o << <<"default_action", "MyEgress.check_ecn">>,
                  <<"clone_session", 100>> >>
    ELSE [i \in 1..Len(host_configs) |-> <<"MyIngress.ipv4_lpm", host_configs[i][1]>>]
            \o << <<"MyIngress.acl_ip_t", "10.0.1.4">>,
                  <<"MyIngress.acl_udp_t", 80>> >>

\* C11: submission order is preserved per device.  On every device the rule
\* writes made so far are, in order, the first writes of that device's
\* configured sequence (routes in list order, then the ECN default action,
\* then the clone session; in the ACL controller the routes, then the drops),
\* and a write is followed by another only if it returned.
C11_SubmissionOrderPerDevice ==
    \A f \in 1..Len(Fleet) :
       LET w == WritesOn(Fleet[f].name)
           e == ConfiguredOn(Fleet[f].name)
       IN  /\ Len(w) <= Len(e)
           /\ \A i \in 1..Len(w) : KindOf(w[i]) = e[i]
           /\ \A i \in 1..(Len(w) - 1) : w[i].ok

\* the ECN controller has written the whole configured sequence of s2: four
\* routes, the ECN default action, the clone session
C11_Witness ==
    /\ prog = "ecn"
    /\ Len(WritesOn("s2")) = Len(s2_rules) + 2

\* the monitoring loop has read, or is reading, the stream of a device
StreamsRead == Monitoring \/ received # <<>> \/ channel_errors # {}

\* every entry of the configured sequence of device dev has been written, and
\* the device accepted each
InstalledOn(dev) ==
    LET w == WritesOn(dev)
        e == ConfiguredOn(dev)
    IN  /\ Len(w) = Len(e)
        /\ \A i \in 1..Len(e) : KindOf(w[i]) = e[i] /\ w[i].ok

\* C12: every rule is installed before monitoring begins.  While the
\* monitoring loop reads streams, or has read one, all route entries, the ECN
\* default action and the clone session have been written on every device of
\* the fleet; and when a rule write has failed no stream is ever read.
C12_InstalledBeforeMonitoring ==
    /\ StreamsRead => \A f \in 1..Len(Fleet) : InstalledOn(Fleet[f].name)
    /\ (\E k \in 1..Len(sent) : IsWrite(sent[k]) /\ ~sent[k].ok) => ~StreamsRead

\* the monitoring loop has taken a message off the stream of s3, the device
\* configured last
C12_Witness ==
    /\ prog = "ecn"
    /\ \E i \in 1..Len(received) : received[i].conn = 3

\* monitor_congestion has printed its shutdown message
Stopped == \E i \in 1..Len(out) : out[i] = "Shutting down monitoring."

\* configuration has returned: every device of the fleet holds all its rules
\* (it is then that main calls monitor_congestion)
MonitoringBegan == \A f \in 1..Len(Fleet) : InstalledOn(Fleet[f].name)

\* C16: monitor supports a cooperative stop signal.  An interrupt raised
\* while the ECN controller monitors is never left pending as an error: the
\* loop prints its shutdown message and returns normally to main, no stream
\* is consumed and no alert is dispatched from then on, and when the driver
\* has ended teardown has closed every connection and the exit is clean.
C16_CooperativeStop ==
    /\ [](/\ (prog = "ecn" /\ raised = "KeyboardInterrupt") => ~MonitoringBegan
          /\ Stopped => (pc \in {"finally", "exit"} /\ raised = "none")
          /\ (Stopped /\ pc = "exit") =>
                /\ exitcode = "0"
                /\ \A c \in 1..Len(connections) : connections[c].closed
                /\ out[Len(out)] = "ShutdownAllSwitchConnections")
    /\ [][Stopped => (alerts' = alerts /\ received' = received
                      /\ evaluated' = evaluated)]_vars

\* monitoring was stopped by an interrupt after an alert had been dispatched,
\* and the driver has ended
C16_Witness ==
    /\ Stopped
    /\ alerts # <<>>
    /\ pc = "exit"

\* C17: monitor runs until externally cancelled.  Once the ECN controller has
\* begun monitoring, it is still monitoring unless the loop was stopped by an
\* interrupt: no stream that ends, no channel error on one device or on all
\* of them, and no message makes monitor_congestion return or raise.
C17_RunsUntilCancelled ==
    (prog = "ecn" /\ MonitoringBegan /\ ~Monitoring) =>
        /\ Stopped
        /\ raised = "none"

\* the streams of all three devices have failed, one device's after a
\* message was taken off it, and the loop has started another pass
C17_Witness ==
    /\ pc = "fetch"
    /\ channel_errors = 1..Len(SWITCHES)
    /\ received # <<>>
    /\ ~Stopped

\* C18: missing input files fail before any network activity.  In both
\* controllers, when the P4Info file or the BMv2 JSON file does not exist, no
\* connection is ever created, no request of any kind is sent to a device,
\* the driver never gets past the file check, and when it has ended the exit
\* status is not zero.
C18_MissingFilesFailFirst ==
    ~(files.p4info /\ files.bmv2) =>
        /\ connections = <<>>
        /\ switches = <<>>
        /\ sent = <<>>
        /\ pc \in {"validate_file_paths", "exit"}
        /\ pc = "exit" => exitcode \in {"1", "traceback"}

\* the ACL controller, started without the BMv2 JSON file, has printed the
\* error and exited with status 1
C18_Witness ==
    /\ prog = "acl"
    /\ files.p4info
    /\ ~files.bmv2
    /\ pc = "exit"
    /\ exitcode = "1"
    /\ out = <<"Error: file not found">>

\* C19: a channel error removes the device from active monitoring.  Once the
\* loop has caught the RpcError of a device's stream it never iterates that
\* stream again in a later pass, and when the driver has ended the connection
\* of that device is closed like the others.
C19_ErroredStreamNotReadAgain ==
    /\ pc = "fetch" => FetchConn \notin channel_errors
    /\ pc = "exit" => \A c \in channel_errors : connections[c].closed

\* C13: a rule write before the pipeline is pushed is rejected.  Every rule
\* write in the history was made on a connection on which a
\* SetForwardingPipelineConfig had returned before, and a write call that
\* names a switch whose connection has no pipeline ends in an error.
C13_NoWriteBeforePipeline ==
    /\ \A k \in 1..Len(sent) :
          IsWrite(sent[k]) =>
             \E j \in 1..(k - 1) :
                /\ sent[j].op = "SetForwardingPipelineConfig"
                /\ sent[j].conn = sent[k].conn
                /\ sent[j].ok
    /\ \A i \in 1..Len(calls) :
          (calls[i].sent_at # 0 /\ calls[i].result = "ok") =>
             \E j \in 1..(calls[i].sent_at - 1) :
                /\ sent[j].op = "SetForwardingPipelineConfig"
                /\ sent[j].conn = sent[calls[i].sent_at].conn
                /\ sent[j].ok

\* C14: a route with a prefix length outside 0..32 is rejected before any
\* device call.  No route entry in the history of writes has a prefix length
\* outside 0..32, and a call of write_ipv4_lpm_rule with such a prefix length
\* ends in an error without having sent a write.
C14_InvalidPrefixRejected ==
    /\ \A k \in 1..Len(sent) :
          (sent[k].op = "WriteTableEntry"
             /\ sent[k].entry.table_name = "MyIngress.ipv4_lpm") =>
                sent[k].entry.match_fields[3] \in 0..32
    /\ \A i \in 1..Len(calls) :
          (calls[i].op = "write_ipv4_lpm_rule"
             /\ calls[i].intent.prefix_len \notin 0..32) =>
                (calls[i].result # "ok" /\ calls[i].sent_at = 0)

\* C15: exactly one live session per device.  No two connections that are
\* open (created and not closed) are connections to the same device, and
\* every open connection is the one that self.switches holds for its name.
C15_OneLiveSessionPerDevice ==
    /\ \A a \in 1..Len(connections) : \A b \in 1..Len(connections) :
          (a # b /\ ~connections[a].closed /\ ~connections[b].closed) =>
             connections[a].name # connections[b].name
    /\ \A c \in 1..Len(connections) :
          ~connections[c].closed =>
             (HasKey(switches, connections[c].name)
                /\ DictGet(switches, connections[c].name) = c)

\* the match of the entry that a drop-rule call must submit
AclMatchOf(call) ==
    IF call.op = "write_acl_ip_rule"
    THEN <<"hdr.ipv4.dstAddr", call.intent.dst_addr, call.intent.mask>>
    ELSE <<"hdr.udp.dstPort", call.intent.dst_port, call.intent.mask>>

IsAclCall(call) == call.op \in {"write_acl_ip_rule", "write_acl_udp_rule"}

\* C20: the entry of an ACL intent carries the intent's priority, match and
\* mask, and the drop action.  For every call of write_acl_ip_rule or
\* write_acl_udp_rule that submitted an entry, the entry submitted is a
\* table entry with an explicit priority equal to the priority passed, the
\* match value and mask passed, and the action MyIngress.drop.
C20_AclEntryCarriesIntent ==
    \A i \in 1..Len(calls) :
       (IsAclCall(calls[i]) /\ calls[i].sent_at # 0) =>
          LET w == sent[calls[i].sent_at] IN
             /\ w.op = "WriteTableEntry"
             /\ w.entry.table_name = (IF calls[i].op = "write_acl_ip_rule"
                                      THEN "MyIngress.acl_ip_t"
                                      ELSE "MyIngress.acl_udp_t")
             /\ w.entry.has_priority
             /\ w.entry.priority = calls[i].intent.priority
             /\ w.entry.match_fields = AclMatchOf(calls[i])
             /\ w.entry.action_name = "MyIngress.drop"
             /\ ~w.entry.default_action

\* after the pipeline was pushed, a client has written a drop rule other than
\* those of configure_acl_rules (priority 3 or 7), and the device accepted it
C20_Witness ==
    /\ \E i \in 1..Len(calls) :
          /\ calls[i].op = "initialize_switches" /\ calls[i].result = "ok"
          /\ \E j \in (i + 1)..Len(calls) :
                /\ IsAclCall(calls[j])
                /\ calls[j].intent.priority # 1
                /\ calls[j].result = "ok"

\* the request r is the write of the default action of the ECN-check table
IsEcnCheck(r) ==
    /\ r.op = "WriteTableEntry"
    /\ r.entry.table_name = "MyEgress.check_ecn"
    /\ r.entry.default_action

\* the request r without what the device answered and without the threshold
WithoutThreshold(r) ==
    IF IsEcnCheck(r)
    THEN [r EXCEPT !.ok = TRUE, !.entry.action_params.ecn_threshold = 0]
    ELSE [r EXCEPT !.ok = TRUE]

\* the threshold that the history s of requests carries is t, on every switch
CarriesThreshold(s, t) ==
    \A k \in 1..Len(s) :
       IsEcnCheck(s[k]) => s[k].entry.action_params = [ecn_threshold |-> t]

\* C21: the congestion decision does not depend on the prompted threshold.
\* Of two runs on the same events, each with its own answer to the prompt (a
\* number, or something that is no number and gives 10): when the second has
\* received the same messages as the first, it has printed the same alerts in
\* the same order; the requests of the two runs differ at most in the
\* threshold parameter of the ECN-check default action; and in each run that
\* parameter is the run's threshold, the same on every switch.
C21_ThresholdNonInterference ==
    /\ CarriesThreshold(sent, threshold)
    /\ first_run.done =>
          /\ CarriesThreshold(first_run.sent, first_run.threshold)
          /\ received = first_run.received => alerts = first_run.alerts
          /\ \A k \in 1..Min(Len(sent), Len(first_run.sent)) :
                WithoutThreshold(sent[k]) = WithoutThreshold(first_run.sent[k])

\* the first run, with one threshold, printed an alert; the second run, with
\* another threshold, has received the same two packets
C21_Witness ==
    /\ first_run.done
    /\ first_run.threshold # threshold
    /\ threshold # -1
    /\ Len(first_run.alerts) = 1
    /\ Len(received) = 2
    /\ received = first_run.received

====
